---- MODULE Spec2Model ----
(***************************************************************************)
(* dnsproxy-rs: the request pipeline of src/handler.rs (DnsProxy, the      *)
(* AsyncQueryHandler chain, Upstream, the response builders) and the       *)
(* expiring cache of src/cache/mod.rs.                                     *)
(***************************************************************************)
EXTENDS Integers, Sequences, FiniteSets, TLC

VARIABLES
    handlers,   \* the Vec<Box<dyn AsyncQueryHandler>> given to DnsProxy::new
    chain,      \* DnsProxy.handlers: [head, next], the linked chain new() built
    pc,         \* per request task: position inside handle_request
    request,    \* per task: the inbound Request
    msg,        \* per task: the Message travelling down the chain
    cur,        \* per task: the handler whose handle_query is running
    calls,      \* per task: handlers whose handle_query was invoked, in order
    conns,      \* per task: upstream connections opened
    queried,    \* per task: upstream queries issued
    resolved,   \* per task: handlers that produced a result message, in order
    raised,     \* per task: the error a handler's handle_query failed with
    outcome,    \* per task: what clone.handlers.handle_query(..) returned
    sent,       \* per task: responses handed to response_handle.send_response
    inner,      \* Cache.inner: key -> ValueWithTtl or NoEntry
    now,        \* the value Clock::now() returns
    ret,        \* the last cache call and what it returned
    inserted    \* per key: the arguments and clock time of the last insert

proxyVars == <<handlers, chain, pc, request, msg, cur, calls, conns, queried, resolved,
              raised, outcome, sent>>
cacheVars == <<inner, now, ret, inserted>>
vars == <<handlers, chain, pc, request, msg, cur, calls, conns, queried, resolved,
          raised, outcome, sent,
          inner, now, ret, inserted>>

---------------------------------------------------------------------------
(* Bounds *)

MaxHandlers == 3
MaxTime == 4
MaxTtl == 2

(* Program constants *)

MinPayload == 512
OurVersion == 0

---------------------------------------------------------------------------
(* Data *)

Nothing == [none |-> TRUE]      \* Option::None of a record-valued option
Tasks == {"t1", "t2"}
Ids == {1, 2}
Kinds == {"upstream", "decline", "answer"}

Question == [name |-> "example.com", class |-> "IN", type |-> "A"]
QuerySections == {<< >>, <<Question>>}
EdnsOptions == {Nothing,
                [max_payload |-> 256, version |-> 1, dnssec_ok |-> FALSE],
                [max_payload |-> 4096, version |-> 0, dnssec_ok |-> TRUE]}

Keys == {"k1", "k2"}
Values == {"v1", "v2"}
Absent == "absent"              \* Option::None of a cache value

Rec(i, d) == [from |-> i, data |-> d]

Requests ==
    [id : Ids, op : {"Query"}, rcode : {"NoError"}, queries : QuerySections,
     edns : EdnsOptions]

HandlerLists == UNION {[1..n -> Kinds] : n \in 0..MaxHandlers}

---------------------------------------------------------------------------
(* DnsProxy::new and the chain *)

WithNext(nxt, self, n) == [nxt EXCEPT ![self] = n]

RECURSIVE NewLoop(_, _, _)
NewLoop(i, first, nxt) ==
    IF i = 0 THEN [head |-> first, next |-> nxt]
    ELSE IF first = 0 THEN NewLoop(i - 1, i, nxt)
    ELSE NewLoop(i - 1, first, WithNext(nxt, first, i))

New(hs) == NewLoop(Len(hs), 0, [i \in 1..Len(hs) |-> 0])

NextOf(h) == chain.next[h]

---------------------------------------------------------------------------
(* Messages and results *)

Ok(m) == [ok |-> TRUE, val |-> m]
Err(e) == [ok |-> FALSE, val |-> [error |-> e]]

\* MessageRequest::try_into_message, when to_bytes and from_bytes succeed
TryIntoMessage(req) ==
    [id |-> req.id, op |-> req.op, rcode |-> req.rcode, queries |-> req.queries,
     answers |-> << >>, name_servers |-> << >>, additionals |-> << >>,
     edns |-> req.edns, by |-> 0]

\* what an upstream server may answer to the query q sent by handler h; by names
\* the handler the message came from (0: the decoded request itself)
ReplyBodies(h) ==
    {[rcode |-> "NoError", answers |-> <<Rec(h, "a"), Rec(h, "b")>>,
      name_servers |-> <<Rec(h, "ns")>>, additionals |-> <<Rec(h, "glue")>>],
     [rcode |-> "NXDomain", answers |-> << >>,
      name_servers |-> <<Rec(h, "soa")>>, additionals |-> << >>]}

UpstreamReplies(h, q) ==
    {[id |-> i, op |-> "Query", rcode |-> b.rcode, queries |-> <<q>>,
      answers |-> b.answers, name_servers |-> b.name_servers,
      additionals |-> b.additionals, edns |-> Nothing, by |-> h] :
        i \in Ids, b \in ReplyBodies(h)}

\* the message a handler of kind "answer" resolves the query with
OwnAnswer(h, m) ==
    [m EXCEPT !.answers = <<Rec(h, "a")>>, !.name_servers = <<Rec(h, "ns")>>,
              !.by = h]

---------------------------------------------------------------------------
(* Response builders *)

Max(a, b) == IF a >= b THEN a ELSE b

\* faulty variant: a failure is answered with a fixed failure code
make_err_msg_response_servfail(req) ==
    [kind |-> "error", id |-> req.id, op |-> "Query", rcode |-> "ServFail",
     queries |-> req.queries, answers |-> << >>, name_servers |-> << >>,
     additionals |-> << >>, edns |-> Nothing]

make_err_msg_response(req) ==
    [kind |-> "error", id |-> req.id, op |-> req.op, rcode |-> req.rcode,
     queries |-> req.queries, answers |-> << >>, name_servers |-> << >>,
     additionals |-> << >>, edns |-> Nothing]

\* faulty variant: the resolved header is cloned without set_id
ForwardHeaderIdKept(req, resp) == resp.id

\* resp.header().clone().set_id(req.id())
ForwardHeaderId(req, resp) == req.id

\* faulty variant: the request's payload is taken without the floor
ForwardEdnsNoFloor(req) ==
    IF req.edns # Nothing
    THEN [max_payload |-> req.edns.max_payload,
          version |-> OurVersion, dnssec_ok |-> TRUE]
    ELSE Nothing

ForwardEdns(req) ==
    IF req.edns # Nothing
    THEN [max_payload |-> Max(req.edns.max_payload, MinPayload),
          version |-> OurVersion, dnssec_ok |-> TRUE]
    ELSE Nothing

\* faulty variant: the resolved message's other sections are forwarded too
make_forward_response_all_sections(req, resp) ==
    [kind |-> "forward", id |-> ForwardHeaderId(req, resp), op |-> resp.op,
     rcode |-> resp.rcode, queries |-> req.queries, answers |-> resp.answers,
     name_servers |-> resp.name_servers, additionals |-> resp.additionals,
     edns |-> ForwardEdns(req)]

make_forward_response(req, resp) ==
    [kind |-> "forward", id |-> ForwardHeaderId(req, resp), op |-> resp.op,
     rcode |-> resp.rcode, queries |-> req.queries, answers |-> resp.answers,
     name_servers |-> << >>, additionals |-> << >>, edns |-> ForwardEdns(req)]

---------------------------------------------------------------------------
(* DnsProxy::handle_request, one action per step between suspension points *)

SendResponse(t, resp) == sent' = [sent EXCEPT ![t] = Append(@, resp)]

\* faulty variant: the Err arm returns without sending
TryHandleErrSilent(t) ==
    /\ sent' = sent
    /\ pc' = [pc EXCEPT ![t] = "done"]

\* try_handle!, Err arm: send the error response and return from the task
TryHandleErr(t) ==
    /\ SendResponse(t, make_err_msg_response(request[t]))
    /\ pc' = [pc EXCEPT ![t] = "done"]

\* handle_request after clone.handlers.handle_query(message).await returned res
ChainReturns(t, res) ==
    /\ outcome' = [outcome EXCEPT ![t] = res]
    /\ IF res.ok
       THEN /\ SendResponse(t, make_forward_response(request[t], res.val))
            /\ pc' = [pc EXCEPT ![t] = "done"]
       ELSE TryHandleErr(t)
    /\ UNCHANGED <<cur, msg>>

\* faulty variant: the message is parked in a slot all request tasks share
CallHandlerSharedSlot(t, h, m) ==
    /\ cur' = [cur EXCEPT ![t] = h]
    /\ msg' = [u \in Tasks |-> m]
    /\ pc' = [pc EXCEPT ![t] = "invoke"]
    /\ UNCHANGED <<outcome, sent>>

\* handler.handle_query(m): control enters handler h
CallHandler(t, h, m) ==
    /\ cur' = [cur EXCEPT ![t] = h]
    /\ msg' = [msg EXCEPT ![t] = m]
    /\ pc' = [pc EXCEPT ![t] = "invoke"]
    /\ UNCHANGED <<outcome, sent>>

\* AsyncQueryHandler::next_handler called by handler h with message m
NextHandler(t, h, m) ==
    IF NextOf(h) # 0
    THEN CallHandler(t, NextOf(h), m)
    ELSE ChainReturns(t, Ok(m))

\* faulty variant: the failure is turned into a fallthrough to the next handler
HandlerFailsAsFallthrough(t, h, e) ==
    /\ raised' = [raised EXCEPT ![t] = [error |-> e, by |-> h]]
    /\ NextHandler(t, h, msg[t])

\* handle_query of handler h ends with Err(e): the ? operator returns it
HandlerFails(t, h, e) ==
    /\ raised' = [raised EXCEPT ![t] = [error |-> e, by |-> h]]
    /\ ChainReturns(t, Err(e))

\* handler h obtained the result message m
Resolves(t, h) == resolved' = [resolved EXCEPT ![t] = Append(@, h)]

Receive(t, req) ==
    /\ chain.head # 0
    /\ pc[t] = "idle"
    /\ pc' = [pc EXCEPT ![t] = "decode"]
    /\ request' = [request EXCEPT ![t] = req]
    /\ UNCHANGED <<handlers, chain, msg, cur, calls, conns, queried, resolved, raised,
                   outcome, sent>>
    /\ UNCHANGED cacheVars

DecodeOk(t) ==
    /\ pc[t] = "decode"
    /\ CallHandler(t, chain.head, TryIntoMessage(request[t]))
    /\ UNCHANGED <<handlers, chain, request, calls, conns, queried, resolved, raised>>
    /\ UNCHANGED cacheVars

DecodeFail(t) ==
    /\ pc[t] = "decode"
    /\ TryHandleErr(t)
    /\ UNCHANGED <<handlers, chain, request, msg, cur, calls, conns, queried, resolved,
                   raised, outcome>>
    /\ UNCHANGED cacheVars

\* faulty variant: a connection opened earlier for the request is used again
UpstreamStartPooled(t) ==
    /\ conns' = [conns EXCEPT ![t] = IF @ = 0 THEN 1 ELSE @]
    /\ pc' = [pc EXCEPT ![t] = "connect"]
    /\ UNCHANGED <<cur, msg, outcome, sent, resolved>>

\* Upstream::handle_query up to its first await: the connection is started
UpstreamStart(t) ==
    /\ conns' = [conns EXCEPT ![t] = @ + 1]
    /\ pc' = [pc EXCEPT ![t] = "connect"]
    /\ UNCHANGED <<cur, msg, outcome, sent, resolved>>

Invoke(t) ==
    /\ pc[t] = "invoke"
    /\ calls' = [calls EXCEPT ![t] = Append(@, cur[t])]
    /\ CASE handlers[cur[t]] = "upstream" -> UpstreamStart(t)
         [] handlers[cur[t]] = "decline" ->
                /\ NextHandler(t, cur[t], msg[t])
                /\ UNCHANGED <<conns, resolved>>
         [] handlers[cur[t]] = "answer" ->
                /\ Resolves(t, cur[t])
                /\ ChainReturns(t, Ok(OwnAnswer(cur[t], msg[t])))
                /\ UNCHANGED conns
    /\ UNCHANGED <<handlers, chain, request, queried, raised>>
    /\ UNCHANGED cacheVars

\* AsyncClient::connect(conn).await? failed
ConnectFail(t) ==
    /\ pc[t] = "connect"
    /\ HandlerFails(t, cur[t], "connect")
    /\ UNCHANGED <<handlers, chain, request, calls, conns, queried, resolved>>
    /\ UNCHANGED cacheVars

\* connect succeeded: take the first question, then issue the query
ConnectOk(t) ==
    /\ pc[t] = "connect"
    /\ IF msg[t].queries = << >>
       THEN HandlerFails(t, cur[t], "empty queries") /\ UNCHANGED queried
       ELSE /\ queried' = [queried EXCEPT ![t] = @ + 1]
            /\ pc' = [pc EXCEPT ![t] = "query"]
            /\ UNCHANGED <<cur, msg, outcome, sent, raised>>
    /\ UNCHANGED <<handlers, chain, request, calls, conns, resolved>>
    /\ UNCHANGED cacheVars

\* faulty variant: the stream is built without a timeout, a silent upstream
\* never ends the query
QueryNeverTimesOut(t) ==
    /\ pc[t] = "query"
    /\ FALSE
    /\ UNCHANGED vars

\* client.query(..).await? failed: timeout, I/O or codec error
QueryFail(t) ==
    /\ pc[t] = "query"
    /\ HandlerFails(t, cur[t], "query")
    /\ UNCHANGED <<handlers, chain, request, calls, conns, queried, resolved>>
    /\ UNCHANGED cacheVars

\* client.query(..).await? answered: self.next_handler(resp.into()).await
QueryReply(t) ==
    /\ pc[t] = "query"
    /\ \E resp \in UpstreamReplies(cur[t], msg[t].queries[1]) :
           NextHandler(t, cur[t], resp)
    /\ Resolves(t, cur[t])
    /\ UNCHANGED <<handlers, chain, request, calls, conns, queried, raised>>
    /\ UNCHANGED cacheVars

ProxyInit ==
    /\ handlers \in HandlerLists
    /\ chain = New(handlers)
    /\ pc = [t \in Tasks |-> "idle"]
    /\ request = [t \in Tasks |-> Nothing]
    /\ msg = [t \in Tasks |-> Nothing]
    /\ cur = [t \in Tasks |-> 0]
    /\ calls = [t \in Tasks |-> << >>]
    /\ conns = [t \in Tasks |-> 0]
    /\ queried = [t \in Tasks |-> 0]
    /\ resolved = [t \in Tasks |-> << >>]
    /\ raised = [t \in Tasks |-> Nothing]
    /\ outcome = [t \in Tasks |-> Nothing]
    /\ sent = [t \in Tasks |-> << >>]

---------------------------------------------------------------------------
(* The expiring cache, src/cache/mod.rs *)

\* ValueWithTtl::new: the entry's clock is a clone of the cache's clock
NewValueWithTtl(value, ttl) == [value |-> value, deadline |-> now + ttl]

\* faulty variant: only the deadline instant itself counts as expired
IsExpiredOnlyAtDeadline(e) == now = e.deadline

\* faulty variant: the deadline itself still counts as live
IsExpiredStrict(e) == now > e.deadline

IsExpired(e) == now >= e.deadline

\* faulty variant: extract hands the value out whatever the deadline
ExtractAlways(e) == e.value

\* ValueWithTtl::get and ValueWithTtl::extract
ValueGet(e) == IF IsExpired(e) THEN Absent ELSE e.value
Extract(e) == IF IsExpired(e) THEN Absent ELSE e.value

CacheLen == Cardinality({k \in Keys : inner[k] # Nothing})

Insert(k, v, ttl) ==
    /\ inner' = [inner EXCEPT ![k] = NewValueWithTtl(v, ttl)]
    /\ ret' = [op |-> "insert", key |-> k, at |-> now, old |-> inner[k],
               val |-> IF inner[k] = Nothing THEN Absent ELSE Extract(inner[k])]
    /\ inserted' = [inserted EXCEPT
                       ![k] = [at |-> now, ttl |-> ttl, value |-> v]]
    /\ UNCHANGED now
    /\ UNCHANGED proxyVars

\* what Cache::get(k) returns in the current state
Lookup(k) == IF inner[k] = Nothing THEN Absent ELSE ValueGet(inner[k])

\* faulty variant: a read drops the entry it finds expired
GetEvicting(k) ==
    /\ ret' = [op |-> "get", key |-> k, at |-> now, old |-> Nothing,
               val |-> IF inner[k] = Nothing THEN Absent ELSE ValueGet(inner[k])]
    /\ inner' = [inner EXCEPT
                    ![k] = IF @ # Nothing /\ IsExpired(@) THEN Nothing ELSE @]
    /\ UNCHANGED <<now, inserted>>
    /\ UNCHANGED proxyVars

Get(k) ==
    /\ ret' = [op |-> "get", key |-> k, at |-> now, old |-> Nothing,
               val |-> IF inner[k] = Nothing THEN Absent ELSE ValueGet(inner[k])]
    /\ UNCHANGED <<inner, now, inserted>>
    /\ UNCHANGED proxyVars

\* faulty variant: retain keeps the expired entries instead of the live ones
GcInverted ==
    /\ inner' = [k \in Keys |->
                    IF inner[k] # Nothing /\ IsExpired(inner[k])
                    THEN inner[k] ELSE Nothing]
    /\ ret' = [op |-> "gc", key |-> Absent, at |-> now, old |-> Nothing,
               val |-> Absent]
    /\ UNCHANGED <<now, inserted>>
    /\ UNCHANGED proxyVars

Gc ==
    /\ inner' = [k \in Keys |->
                    IF inner[k] # Nothing /\ ~IsExpired(inner[k])
                    THEN inner[k] ELSE Nothing]
    /\ ret' = [op |-> "gc", key |-> Absent, at |-> now, old |-> Nothing,
               val |-> Absent]
    /\ UNCHANGED <<now, inserted>>
    /\ UNCHANGED proxyVars

\* the clock moves on; successive samples are non-decreasing
Tick ==
    /\ now < MaxTime
    /\ now' \in (now + 1)..MaxTime
    /\ UNCHANGED <<inner, ret, inserted>>
    /\ UNCHANGED proxyVars

CacheInit ==
    /\ inner = [k \in Keys |-> Nothing]
    /\ now = 0
    /\ ret = Nothing
    /\ inserted = [k \in Keys |-> Nothing]

\* main builds the proxy from one Upstream handler
CacheSpecInit ==
    /\ ProxyInit
    /\ handlers = <<"upstream">>
    /\ CacheInit

CacheNext ==
    \/ \E k \in Keys, v \in Values, ttl \in 0..MaxTtl : Insert(k, v, ttl)
    \/ \E k \in Keys : Get(k)
    \/ Gc
    \/ Tick

CacheSpec == CacheSpecInit /\ [][CacheNext]_vars

Init == ProxyInit /\ CacheInit

Next ==
    \E t \in Tasks :
        \/ \E req \in Requests : Receive(t, req)
        \/ DecodeOk(t)
        \/ DecodeFail(t)
        \/ Invoke(t)
        \/ ConnectFail(t)
        \/ ConnectOk(t)
        \/ QueryFail(t)
        \/ QueryReply(t)

Spec == Init /\ [][Next]_vars

\* One request at a time, over every opcode and response code a request
\* message may carry
WideRequests ==
    [id : Ids, op : {"Query", "Update"}, rcode : {"NoError", "Refused"},
     queries : QuerySections, edns : EdnsOptions]

OneTaskNext ==
    \/ \E req \in WideRequests : Receive("t1", req)
    \/ DecodeOk("t1")
    \/ DecodeFail("t1")
    \/ Invoke("t1")
    \/ ConnectFail("t1")
    \/ ConnectOk("t1")
    \/ QueryFail("t1")
    \/ QueryReply("t1")

OneTaskSpec == Init /\ [][OneTaskNext]_vars

\* The task's synchronous code runs once scheduled; the connect future
\* completes; the upstream need not answer, but the timeout given to
\* UdpClientStream::with_timeout ends the query.
Synchronous(t) == DecodeOk(t) \/ DecodeFail(t) \/ Invoke(t)
Connected(t) == ConnectOk(t) \/ ConnectFail(t)

\* requests without an EDNS record: the record plays no part in scheduling
PlainRequests == {req \in Requests : req.edns = Nothing}

FairNext ==
    \E t \in Tasks :
        \/ \E req \in PlainRequests : Receive(t, req)
        \/ DecodeOk(t)
        \/ DecodeFail(t)
        \/ Invoke(t)
        \/ ConnectFail(t)
        \/ ConnectOk(t)
        \/ QueryFail(t)
        \/ QueryReply(t)

FairSpec ==
    /\ Init
    /\ [][FairNext]_vars
    /\ \A t \in Tasks :
          /\ WF_vars(Synchronous(t))
          /\ WF_vars(Connected(t))
          /\ WF_vars(QueryFail(t))

---------------------------------------------------------------------------
(* Properties of the request pipeline *)

Range(f) == {f[i] : i \in DOMAIN f}
Stored == {k \in Keys : inner[k] # Nothing}

\* C1: a request task sends exactly one response before it ends: none while
\* it runs, one once it is done, never two (so never an error and a success).
C1_SingleSend ==
    \A t \in Tasks :
        /\ Len(sent[t]) <= 1
        /\ (pc[t] = "done") <=> (Len(sent[t]) = 1)

C1_Witness ==
    \E t1, t2 \in Tasks :
        /\ pc[t1] = "done" /\ sent[t1][1].kind = "forward"
        /\ pc[t2] = "done" /\ sent[t2][1].kind = "error" /\ calls[t2] = << >>

\* C2: handlers are invoked strictly in configured order, each at most once:
\* the n-th invocation of a request is the n-th handler of the configured list.
C2_ConfiguredOrder ==
    \A t \in Tasks : \A n \in 1..Len(calls[t]) : calls[t][n] = n

\* C3: when some handler resolved the query, the first handler to do so, Hi,
\* is the one the response derives from, and no H(i+1)..Hn is invoked.
C3_FirstResolverWins ==
    \A t \in Tasks :
        (pc[t] = "done" /\ resolved[t] # << >>) =>
            LET i == resolved[t][1] IN
                /\ sent[t][1].kind = "forward"
                /\ outcome[t].ok /\ outcome[t].val.by = i
                /\ \A j \in (i + 1)..Len(handlers) : j \notin Range(calls[t])

\* C4: once a handler has failed the chain has stopped: the failing handler is
\* the last one invoked, the chain's outcome is that error (not a fallthrough,
\* not a result), and the request was answered with the error response.
C4_FailureStopsChain ==
    \A t \in Tasks :
        raised[t] # Nothing =>
            /\ pc[t] = "done"
            /\ calls[t][Len(calls[t])] = raised[t].by
            /\ outcome[t] = Err(raised[t].error)
            /\ Len(sent[t]) = 1
            /\ sent[t][1].kind = "error"

C4_Witness ==
    \E t \in Tasks :
        /\ raised[t] # Nothing /\ raised[t].error = "query"
        /\ calls[t] = <<raised[t].by>>
        /\ NextOf(raised[t].by) # 0

\* C5: if every handler invoked fell through (none resolved, none failed), the
\* request is answered with an error response.
C5_ExhaustionIsError ==
    \A t \in Tasks :
        (pc[t] = "done" /\ calls[t] # << >> /\ resolved[t] = << >>
            /\ raised[t] = Nothing) =>
                sent[t][1].kind = "error"

\* C6: every response sent, success or error, carries the request's id.
C6_IdEcho ==
    \A t \in Tasks : \A n \in 1..Len(sent[t]) : sent[t][n].id = request[t].id

C6_Witness ==
    \E t1, t2 \in Tasks :
        /\ Len(sent[t1]) = 1 /\ sent[t1][1].kind = "forward"
        /\ resolved[t1] # << >> /\ outcome[t1].val.id # request[t1].id
        /\ Len(sent[t2]) = 1 /\ sent[t2][1].kind = "error"

\* C7: a success response has no EDNS record when the request has none, and
\* otherwise a record with DNSSEC-OK set, version 0, and the request's payload
\* raised to at least 512.
C7_EdnsNegotiation ==
    \A t \in Tasks : \A n \in 1..Len(sent[t]) :
        sent[t][n].kind = "forward" =>
            IF request[t].edns = Nothing
            THEN sent[t][n].edns = Nothing
            ELSE /\ sent[t][n].edns # Nothing
                 /\ sent[t][n].edns.dnssec_ok = TRUE
                 /\ sent[t][n].edns.version = 0
                 /\ sent[t][n].edns.max_payload >= 512
                 /\ sent[t][n].edns.max_payload >= request[t].edns.max_payload
                 /\ sent[t][n].edns.max_payload \in {512, request[t].edns.max_payload}

C7_Witness ==
    \E t1, t2 \in Tasks :
        /\ Len(sent[t1]) = 1 /\ sent[t1][1].kind = "forward"
        /\ request[t1].edns # Nothing
        /\ request[t1].edns.max_payload = 256 /\ request[t1].edns.version = 1
        /\ sent[t1][1].edns.max_payload = 512
        /\ Len(sent[t2]) = 1 /\ sent[t2][1].kind = "forward"
        /\ request[t2].edns = Nothing

\* the handlers reached from the chain's head through next(), in order
RECURSIVE ChainFrom(_, _)
ChainFrom(h, fuel) ==
    IF h = 0 \/ fuel = 0 THEN << >>
    ELSE <<h>> \o ChainFrom(chain.next[h], fuel - 1)

Visited == ChainFrom(chain.head, Len(handlers))

\* invocations of Upstream::handle_query made for the request
UpstreamCalls(t) ==
    Cardinality({n \in 1..Len(calls[t]) : handlers[calls[t][n]] = "upstream"})

TaskState(t) ==
    <<pc[t], request[t], msg[t], cur[t], calls[t], conns[t], queried[t],
      resolved[t], raised[t], outcome[t], sent[t]>>

\* C13: the steps run in the order Decode, Dispatch, BuildResponse, Send: a
\* handler is invoked only after a successful decode (a failed decode sends
\* the error response with no handler invoked), and a success response is
\* sent only after the chain returned a resolved result.
C13_StrictStepOrder ==
    \A t \in Tasks :
        /\ calls[t] # << >> => msg[t] # Nothing
        /\ (pc[t] = "done" /\ msg[t] = Nothing) =>
               (calls[t] = << >> /\ sent[t][1].kind = "error")
        /\ (sent[t] # << >> /\ sent[t][1].kind = "forward") =>
               (outcome[t] # Nothing /\ outcome[t].ok /\ resolved[t] # << >>)

\* C14: every error response carries the request's own opcode and the
\* request's own response code.
C14_ErrorEchoesRequestCodes ==
    \A t \in Tasks : \A n \in 1..Len(sent[t]) :
        sent[t][n].kind = "error" =>
            (sent[t][n].op = request[t].op /\ sent[t][n].rcode = request[t].rcode)

C14_Witness ==
    \E t \in Tasks :
        /\ Len(sent[t]) = 1 /\ sent[t][1].kind = "error"
        /\ raised[t] # Nothing
        /\ request[t].op = "Update" /\ request[t].rcode = "Refused"
        /\ sent[t][1].rcode = "Refused"

\* C15: a success response holds the resolved message's answer records, in
\* the same order, and no authority or additional records.
C15_AnswersOnly ==
    \A t \in Tasks : \A n \in 1..Len(sent[t]) :
        sent[t][n].kind = "forward" =>
            /\ sent[t][n].answers = outcome[t].val.answers
            /\ sent[t][n].name_servers = << >>
            /\ sent[t][n].additionals = << >>

C15_Witness ==
    \E t \in Tasks :
        /\ Len(sent[t]) = 1 /\ sent[t][1].kind = "forward"
        /\ outcome[t].val.name_servers # << >>
        /\ outcome[t].val.additionals # << >>
        /\ Len(sent[t][1].answers) = 2
        /\ sent[t][1].answers[1] # sent[t][1].answers[2]

\* C16: each invocation of the upstream handler opens one connection of its
\* own and issues at most one query on it; after a failure the task has
\* ended, so nothing is tried again.
C16_SingleShot ==
    \A t \in Tasks :
        /\ conns[t] = UpstreamCalls(t)
        /\ queried[t] <= conns[t]
        /\ conns[t] - 1 <= queried[t]
        /\ raised[t] # Nothing => pc[t] = "done"

C16_Witness ==
    \E t \in Tasks :
        /\ raised[t] # Nothing /\ raised[t].error = "query"
        /\ conns[t] = 2 /\ queried[t] = 2
        /\ pc[t] = "done"

\* C17: an upstream handler that fails with "empty queries" has opened no
\* connection and issued no query, and the request gets the error response.
C17_NoConnectionForEmptyQuestion ==
    \A t \in Tasks :
        (raised[t] # Nothing /\ raised[t].error = "empty queries") =>
            /\ conns[t] = 0
            /\ queried[t] = 0
            /\ sent[t] = <<make_err_msg_response(request[t])>>

\* C18: no step changes the chain or its handlers; a step of one request
\* task leaves every other task's state alone; every response is the one
\* built from its own request and its own chain outcome.
C18_IsolatedRequests ==
    [][/\ chain' = chain
       /\ handlers' = handlers
       /\ \A t, u \in Tasks :
             (t # u /\ TaskState(t)' # TaskState(t)) => TaskState(u)' = TaskState(u)
       /\ \A t \in Tasks : \A n \in 1..Len(sent'[t]) :
             sent'[t][n] =
                 IF outcome'[t] # Nothing /\ outcome'[t].ok
                 THEN make_forward_response(request'[t], outcome'[t].val)
                 ELSE make_err_msg_response(request'[t])]_vars

C18_Witness ==
    \E t, u \in Tasks :
        /\ t # u
        /\ pc[t] = "done" /\ sent[t][1].kind = "forward"
        /\ pc[u] = "query"
        /\ request[t].id # request[u].id
        /\ request[t].edns # request[u].edns
        /\ sent[t][1].id = request[t].id

\* C19: the chain new() built from n >= 1 handlers, followed from its head
\* through next(), visits each of the n handlers exactly once.
C19_NewKeepsEveryHandler ==
    Len(handlers) >= 1 =>
        /\ Len(Visited) = Len(handlers)
        /\ Range(Visited) = 1..Len(handlers)

\* C11: every received request is eventually answered with exactly one
\* response carrying its id and its task ends; a query that failed or timed
\* out is answered with the error response for the request.
C11_EveryRequestAnswered ==
    /\ \A t \in Tasks :
          (pc[t] = "decode") ~>
              (pc[t] = "done" /\ Len(sent[t]) = 1 /\ sent[t][1].id = request[t].id)
    /\ [](\A t \in Tasks :
             (raised[t] # Nothing /\ raised[t].error = "query") =>
                 (pc[t] = "done" /\ sent[t] = <<make_err_msg_response(request[t])>>))

C11_Witness ==
    \E t \in Tasks :
        /\ raised[t] # Nothing /\ raised[t].error = "query"
        /\ pc[t] = "done"
        /\ sent[t][1].kind = "error" /\ sent[t][1].id = request[t].id

---------------------------------------------------------------------------
(* Properties of the cache *)

\* C8: a get of k after the last insert(k, v, t), t > 0, made at time T
\* returns v while the clock is below T + t and absent from T + t on.
C8_LiveUntilDeadline ==
    (ret # Nothing /\ ret.op = "get" /\ inserted[ret.key] # Nothing
        /\ inserted[ret.key].ttl > 0) =>
            LET ins == inserted[ret.key] IN
                ret.val = IF ret.at < ins.at + ins.ttl THEN ins.value ELSE Absent

C8_Witness ==
    /\ ret # Nothing /\ ret.op = "get" /\ inserted[ret.key] # Nothing
    /\ inserted[ret.key].ttl > 0
    /\ ret.at = inserted[ret.key].at + inserted[ret.key].ttl
    /\ ret.val = Absent
    /\ inner[ret.key] # Nothing

\* C9: a sweep at time S leaves exactly the stored keys whose deadline is
\* greater than S, each with its entry unchanged, so len() does not grow.
C9_SweepExact ==
    [][Gc =>
        /\ {k \in Keys : inner'[k] # Nothing}
              = {k \in Stored : inner[k].deadline > now}
        /\ \A k \in Keys : inner'[k] # Nothing => inner'[k] = inner[k]
        /\ Cardinality({k \in Keys : inner'[k] # Nothing}) <= CacheLen]_vars

C9_Witness ==
    /\ ret # Nothing /\ ret.op = "gc" /\ ret.at = now
    /\ \E k1, k2 \in Keys :
        /\ inserted[k1] # Nothing /\ inner[k1] = Nothing
        /\ inner[k2] # Nothing

\* C10: insert returns the value it replaced when that entry was not expired,
\* and absent when there was no entry or the entry was expired.
C10_InsertReturnsLivePrevious ==
    (ret # Nothing /\ ret.op = "insert") =>
        ret.val = IF ret.old # Nothing /\ ret.at < ret.old.deadline
                  THEN ret.old.value ELSE Absent

C10_Witness ==
    /\ ret # Nothing /\ ret.op = "insert"
    /\ ret.old # Nothing /\ ret.at >= ret.old.deadline
    /\ ret.val = Absent

\* C12: get changes nothing: the stored keys, values, deadlines and len() are
\* the same after it, and an expired entry reads as absent yet stays stored.
C12_GetIsReadOnly ==
    [][\A k \in Keys :
          Get(k) =>
              /\ inner' = inner
              /\ CacheLen' = CacheLen
              /\ (inner[k] # Nothing /\ now >= inner[k].deadline) =>
                     (ret'.val = Absent /\ inner'[k] # Nothing)]_vars

C12_Witness ==
    /\ ret # Nothing /\ ret.op = "get" /\ ret.at = now
    /\ ret.val = Absent
    /\ inner[ret.key] # Nothing /\ now > inner[ret.key].deadline

\* C20: with the clock never going back, a key that reads as absent keeps
\* reading as absent until it is inserted again, and a sweep never changes
\* what get returns for any key.
C20_ExpiryIsPermanent ==
    [][\A k \in Keys :
          /\ (Lookup(k) = Absent
                /\ ~(\E v \in Values, ttl \in 0..MaxTtl : Insert(k, v, ttl)))
                    => Lookup(k)' = Absent
          /\ Gc => Lookup(k)' = Lookup(k)]_vars

C20_Witness ==
    /\ ret # Nothing /\ ret.op = "get" /\ ret.val = Absent
    /\ inserted[ret.key] # Nothing /\ inserted[ret.key].ttl > 0
    /\ ret.at > inserted[ret.key].at + inserted[ret.key].ttl
    /\ inner[ret.key] = Nothing

====
